---- MODULE Spec2Model ----
(***************************************************************************)
(* Weighted network distributions of networks.py:                          *)
(*   GaussianErdosRenyiFixedSparsity  (BernoulliEdges   + GaussianWeights)  *)
(*   GaussianWeightedEigenmodel       (LogisticEigenmodel + GaussianWeights)*)
(*                                                                         *)
(* Numbers.  Floats are fixed point: a probability handed to the           *)
(* fixed-sparsity model is counted in tenths (5 is 0.5), the entries of an *)
(* eigenmodel probability matrix and every logarithm are counted in        *)
(* thousandths (-693 is log 0.5).  Weight parameters and latent features   *)
(* are small integers.                                                     *)
(* Tensors are nested sequences: an NxNxB array is a sequence of N         *)
(* sequences of N sequences of B numbers.                                  *)
(***************************************************************************)
EXTENDS Integers, Sequences, FiniteSets

\* ---------------------------------------------------------------- bounds
MaxN == 2
MaxB == 2
MaxD == 2

\* constructor arguments that are tried, the invalid ones included
NInputs == -1 .. MaxN
BInputs == 0 .. MaxB
DInputs == 0 .. MaxD
PInputs == {-2, 0, 2, 5, 8, 10, 13}

\* seeds from which parameter vectors and matrices are generated
WeightParams == {<<0, 0, 1>>, <<1, 0, 2>>, <<0, 1, 2>>, <<2, 1, 1>>}
FSeeds == 0 .. 1
LmbdaSeeds == 0 .. 1
BiasVals == {-1, 0, 1}
OverwriteVals == {7}

NoValue == [rank |-> -1, val |-> 0, alias |-> "none"]
NoAdjacency == [kind |-> "none"]
NoWeights == [kind |-> "none"]

VARIABLES
    phase,      \* "new": no constructor call yet; "live": an object exists; "failed": the constructor raised
    err,        \* the exception the constructor raised, or "none"
    args,       \* the arguments of the constructor call
    variant,    \* "ER" (GaussianErdosRenyiFixedSparsity), "Eigen" (GaussianWeightedEigenmodel) or "none"
    N, B, D,    \* self.N, self.B, self.D (0 where the object has no such attribute)
    self_p,     \* self.p of GaussianErdosRenyiFixedSparsity
    adjacency,  \* the state of self._adjacency_dist
    weight,     \* the state of self._weight_dist
    op,         \* the kind of the last call: "none", "ctor", "read", "write", "overwrite"
    acc,        \* the accessor of the last read
    ret,        \* the tensor the last read returned, as the caller holds it
    written     \* history: a sub-process has been written to since construction

vars == <<phase, err, args, variant, N, B, D, self_p, adjacency, weight, op, acc, ret, written>>
model_state == <<N, B, D, self_p, adjacency, weight>>

\* ------------------------------------------------------------- numpy
\* numpy.ones((n, n))
Ones(n) == [i \in 1 .. n |-> [j \in 1 .. n |-> 1]]

\* scalar * ndarray, elementwise, for a two-dimensional array
ScalarTimes(s, M) == [i \in 1 .. Len(M) |-> [j \in 1 .. Len(M[i]) |-> s * M[i][j]]]

\* v[None, None, ...]: two leading axes of length 1
NewAxes(v) == << <<v>> >>

\* numpy.tile(X, [n, n, 1]) and numpy.tile(X, [n, n, 1, 1]) for X with two
\* leading axes: the leading axes are repeated n times, the trailing ones once.
\* The result is a new array, also for n = 1 (numpy copies when every
\* repetition is 1).
TileLeading(X, n) ==
    [i \in 1 .. (Len(X) * n) |->
        [j \in 1 .. (Len(X[1]) * n) |->
            X[((i - 1) % Len(X)) + 1][((j - 1) % Len(X[1])) + 1]]]

\* ------------------------------------------------- parameter values
\* The parameter values the model draws from: a vector and matrices of
\* dimension b, and the latent features of n nodes, generated from a seed so
\* that entries differ along every axis.
Vec(seed, b) == [k \in 1 .. b |-> ((k + seed) % 3) - 1]

SymMat(s, c, b) == [a \in 1 .. b |-> [k \in 1 .. b |-> IF a = k THEN s + 1 ELSE c]]

Outer(v) == [a \in 1 .. Len(v) |-> [k \in 1 .. Len(v) |-> v[a] * v[k]]]

MatAdd(X, Y) == [a \in 1 .. Len(X) |-> [k \in 1 .. Len(X[a]) |-> X[a][k] + Y[a][k]]]

Features(seed, n, d) == [i \in 1 .. n |-> [k \in 1 .. d |-> ((i * k + seed) % 3) - 1]]

\* ------------------------------------------------ internals.weights
\* GaussianWeights(B, ...): the point parameters mu and sigma and the
\* mean-field factor, held as the four expectations the factor answers with.
GaussianWeights(ms, es, s, b) ==
    [kind |-> "GaussianWeights",
     mu |-> Vec(ms, b),
     sigma |-> SymMat(s, 1, b),
     E_mu |-> Vec(ms + es + 1, b),
     E_mumuT |-> MatAdd(Outer(Vec(ms + es + 1, b)), SymMat(s, 0, b)),
     E_Sigma_inv |-> SymMat(s + es + 2, 0, b),
     E_logdet_Sigma |-> (b * s) - es]

W_mf_expected_mu == weight.E_mu
W_mf_expected_mumuT == weight.E_mumuT
W_mf_expected_Sigma_inv == weight.E_Sigma_inv
W_mf_expected_logdet_Sigma == weight.E_logdet_Sigma

\* ---------------------------------------------- internals.adjacency
\* BernoulliEdges(p) accepts only 0 < p < 1 (p in tenths).
BernoulliEdgesValid(p) == 0 < p /\ p < 10

BernoulliEdges(p) == [kind |-> "BernoulliEdges", p |-> p]

\* 1000 * ln(k / 10), rounded, for k in 1 .. 9
LogTenths(k) ==
    CASE k = 1 -> -2303 [] k = 2 -> -1609 [] k = 3 -> -1204
      [] k = 4 -> -916  [] k = 5 -> -693  [] k = 6 -> -511
      [] k = 7 -> -357  [] k = 8 -> -223  [] k = 9 -> -105
      [] k >= 10 -> 90 * (k - 10)   \* coarse, log of a number >= 1
      [] k <= 0 -> -1000000         \* numpy's -inf / nan

BE_mf_expected_log_p == LogTenths(adjacency.p)
BE_mf_expected_log_notp == LogTenths(10 - adjacency.p)

\* --------------------------------------------- internals.eigenmodel
\* LogisticEigenmodel(N, D, ...) needs a latent dimension D > 0.
LogisticEigenmodelValid(n, d) == d > 0

LogisticEigenmodel(fs, ls, m, n, d) ==
    [kind |-> "LogisticEigenmodel",
     F |-> Features(fs, n, d),
     lmbda |-> Vec(ls, n),
     mu_0 |-> m]

RECURSIVE DotFrom(_, _, _)
DotFrom(x, y, k) == IF k > Len(x) THEN 0 ELSE (x[k] * y[k]) + DotFrom(x, y, k + 1)

Dot(x, y) == DotFrom(x, y, 1)

\* logit(i, j) = mu_0 + lmbda_i + lmbda_j + f_i . f_j
Logit(i, j) ==
    adjacency.mu_0 + adjacency.lmbda[i] + adjacency.lmbda[j]
        + Dot(adjacency.F[i], adjacency.F[j])

\* 1000 * ln(sigmoid(x)), rounded, never 0: ln sigmoid(x) = ln sigmoid(-x) + x
LogSigmoid(x) ==
    LET pos(y) == CASE y = 0 -> -693 [] y = 1 -> -313 [] y = 2 -> -127
                    [] y = 3 -> -49  [] y = 4 -> -18  [] y = 5 -> -7
                    [] y = 6 -> -2   [] OTHER -> -1
    IN IF x >= 0 THEN pos(x) ELSE pos(-x) + (1000 * x)

\* 1000 * sigmoid(x), rounded, strictly between 0 and 1000
Sigmoid(x) ==
    LET pos(y) == CASE y = 0 -> 500 [] y = 1 -> 731 [] y = 2 -> 881
                    [] y = 3 -> 953 [] y = 4 -> 982 [] y = 5 -> 993
                    [] y = 6 -> 998 [] OTHER -> 999
    IN IF x >= 0 THEN pos(x) ELSE 1000 - pos(-x)

\* The eigenmodel's three N x N answers, each recomputed from the current
\* features, effects and bias on every call.
LE_P ==
    [rank |-> 2, alias |-> "none",
     val |-> [i \in 1 .. Len(adjacency.F) |-> [j \in 1 .. Len(adjacency.F) |-> Sigmoid(Logit(i, j))]]]

LE_mf_expected_log_p ==
    [rank |-> 2, alias |-> "none",
     val |-> [i \in 1 .. Len(adjacency.F) |-> [j \in 1 .. Len(adjacency.F) |-> LogSigmoid(Logit(i, j))]]]

LE_mf_expected_log_notp ==
    [rank |-> 2, alias |-> "none",
     val |-> [i \in 1 .. Len(adjacency.F) |-> [j \in 1 .. Len(adjacency.F) |-> LogSigmoid(-Logit(i, j))]]]

\* ------------------------------------------------- abstractions
\* The base constructor, called as super().__init__(N, B).
NetworkDistributionValid(n, b) == n > 0 /\ b > 0

\* ------------------------------- GaussianErdosRenyiFixedSparsity
\* What __init__(N, B, p) raises: the calls are made in this order and the
\* first exception ends the construction.
\* faulty variant: the base constructor is not called
ER_init_error_nosuper(n, b, p) ==
    IF ~BernoulliEdgesValid(p) THEN "InvalidParameter" ELSE "none"

\* faulty variant: the adjacency process is built without its parameter check
ER_init_error_noedges(n, b, p) ==
    IF ~NetworkDistributionValid(n, b) THEN "InvalidDimension" ELSE "none"

ER_init_error(n, b, p) ==
    IF ~NetworkDistributionValid(n, b) THEN "InvalidDimension"
    ELSE IF ~BernoulliEdgesValid(p) THEN "InvalidParameter"
    ELSE "none"

ER_p == [rank |-> 0, alias |-> "none", val |-> self_p]

ER_P == [rank |-> 2, alias |-> "none", val |-> ScalarTimes(adjacency.p, Ones(N))]

\* faulty variant: a broadcast view of the weight process's mu instead of a tiled copy
ER_Mu_view == [rank |-> 3, alias |-> "weight.mu", val |-> TileLeading(NewAxes(weight.mu), N)]

ER_Mu == [rank |-> 3, alias |-> "none", val |-> TileLeading(NewAxes(weight.mu), N)]

ER_Sigma == [rank |-> 4, alias |-> "none", val |-> TileLeading(NewAxes(weight.sigma), N)]

ER_mf_expected_log_p ==
    [rank |-> 2, alias |-> "none", val |-> ScalarTimes(BE_mf_expected_log_p, Ones(N))]

\* faulty variant: log p where log(1 - p) is meant
ER_log_notp_slip ==
    [rank |-> 2, alias |-> "none", val |-> ScalarTimes(BE_mf_expected_log_p, Ones(N))]

ER_mf_expected_log_notp ==
    [rank |-> 2, alias |-> "none", val |-> ScalarTimes(BE_mf_expected_log_notp, Ones(N))]

ER_mf_expected_mu ==
    [rank |-> 3, alias |-> "none", val |-> TileLeading(NewAxes(W_mf_expected_mu), N)]

ER_mf_expected_mumuT ==
    [rank |-> 4, alias |-> "none", val |-> TileLeading(NewAxes(W_mf_expected_mumuT), N)]

ER_mf_expected_Sigma_inv ==
    [rank |-> 4, alias |-> "none", val |-> TileLeading(NewAxes(W_mf_expected_Sigma_inv), N)]

ER_mf_expected_logdet_Sigma ==
    [rank |-> 2, alias |-> "none", val |-> ScalarTimes(W_mf_expected_logdet_Sigma, Ones(N))]

ER_Accessors ==
    {"p", "P", "Mu", "Sigma", "mf_expected_log_p", "mf_expected_log_notp",
     "mf_expected_mu", "mf_expected_mumuT", "mf_expected_Sigma_inv",
     "mf_expected_logdet_Sigma"}

ER_call(a) ==
    CASE a = "p" -> ER_p
      [] a = "P" -> ER_P
      [] a = "Mu" -> ER_Mu
      [] a = "Sigma" -> ER_Sigma
      [] a = "mf_expected_log_p" -> ER_mf_expected_log_p
      [] a = "mf_expected_log_notp" -> ER_mf_expected_log_notp
      [] a = "mf_expected_mu" -> ER_mf_expected_mu
      [] a = "mf_expected_mumuT" -> ER_mf_expected_mumuT
      [] a = "mf_expected_Sigma_inv" -> ER_mf_expected_Sigma_inv
      [] a = "mf_expected_logdet_Sigma" -> ER_mf_expected_logdet_Sigma

\* ------------------------------------ GaussianWeightedEigenmodel
Eigen_init_error(n, b, d) ==
    IF ~NetworkDistributionValid(n, b) THEN "InvalidDimension"
    ELSE IF ~LogisticEigenmodelValid(n, d) THEN "InvalidDimension"
    ELSE "none"

Eigen_P == LE_P

\* faulty variant: the mean-field expectation tiled where the point parameter is meant
Eigen_Mu_expected == [rank |-> 3, alias |-> "none", val |-> TileLeading(NewAxes(W_mf_expected_mu), N)]

Eigen_Mu == [rank |-> 3, alias |-> "none", val |-> TileLeading(NewAxes(weight.mu), N)]

Eigen_Sigma == [rank |-> 4, alias |-> "none", val |-> TileLeading(NewAxes(weight.sigma), N)]

Eigen_mf_expected_log_p == LE_mf_expected_log_p

\* faulty variant: log p where log(1 - p) is meant
Eigen_log_notp_slip == LE_mf_expected_log_p

Eigen_mf_expected_log_notp == LE_mf_expected_log_notp

Eigen_mf_expected_mu ==
    [rank |-> 3, alias |-> "none", val |-> TileLeading(NewAxes(W_mf_expected_mu), N)]

Eigen_mf_expected_mumuT ==
    [rank |-> 4, alias |-> "none", val |-> TileLeading(NewAxes(W_mf_expected_mumuT), N)]

\* faulty variant: E[mu mu^T] tiled where E[Sigma^-1] is meant
Eigen_Sigma_inv_slip ==
    [rank |-> 4, alias |-> "none", val |-> TileLeading(NewAxes(W_mf_expected_mumuT), N)]

Eigen_mf_expected_Sigma_inv ==
    [rank |-> 4, alias |-> "none", val |-> TileLeading(NewAxes(W_mf_expected_Sigma_inv), N)]

\* faulty variant: ones((B, B)) where ones((N, N)) is meant
Eigen_logdet_BxB ==
    [rank |-> 2, alias |-> "none", val |-> ScalarTimes(W_mf_expected_logdet_Sigma, Ones(B))]

Eigen_mf_expected_logdet_Sigma ==
    [rank |-> 2, alias |-> "none", val |-> ScalarTimes(W_mf_expected_logdet_Sigma, Ones(N))]

Eigen_Accessors ==
    {"P", "Mu", "Sigma", "mf_expected_log_p", "mf_expected_log_notp",
     "mf_expected_mu", "mf_expected_mumuT", "mf_expected_Sigma_inv",
     "mf_expected_logdet_Sigma"}

Eigen_call(a) ==
    CASE a = "P" -> Eigen_P
      [] a = "Mu" -> Eigen_Mu
      [] a = "Sigma" -> Eigen_Sigma
      [] a = "mf_expected_log_p" -> Eigen_mf_expected_log_p
      [] a = "mf_expected_log_notp" -> Eigen_mf_expected_log_notp
      [] a = "mf_expected_mu" -> Eigen_mf_expected_mu
      [] a = "mf_expected_mumuT" -> Eigen_mf_expected_mumuT
      [] a = "mf_expected_Sigma_inv" -> Eigen_mf_expected_Sigma_inv
      [] a = "mf_expected_logdet_Sigma" -> Eigen_mf_expected_logdet_Sigma

\* ------------------------------------------------------- the caller
\* faulty variant: an accessor stores the expectation it read back into the weight process
AccessorFrame_memo ==
    /\ weight' = [weight EXCEPT !.mu = weight.E_mu]
    /\ UNCHANGED <<N, B, D, self_p, adjacency>>

\* An accessor's body assigns to no attribute of the object or of its two
\* sub-processes.
AccessorFrame == UNCHANGED model_state

\* Every entry of a tensor of the given rank overwritten with v.
RECURSIVE Fill(_, _, _)
Fill(t, r, v) == IF r = 0 THEN v ELSE [i \in DOMAIN t |-> Fill(t[i], r - 1, v)]

\* ---------------------------------------------------------- actions
Init ==
    /\ phase = "new"
    /\ err = "none"
    /\ args = [cls |-> "none"]
    /\ variant = "none"
    /\ N = 0 /\ B = 0 /\ D = 0
    /\ self_p = 0
    /\ adjacency = NoAdjacency
    /\ weight = NoWeights
    /\ op = "none"
    /\ acc = "none"
    /\ ret = NoValue
    /\ written = FALSE

\* GaussianErdosRenyiFixedSparsity(n, b, p)
ConstructER ==
    \E n \in NInputs, b \in BInputs, p \in PInputs, w \in WeightParams :
        /\ phase = "new"
        /\ args' = [cls |-> "ER", N |-> n, B |-> b, p |-> p]
        /\ err' = ER_init_error(n, b, p)
        /\ op' = "ctor"
        /\ UNCHANGED <<acc, ret, written>>
        /\ IF ER_init_error(n, b, p) = "none"
           THEN /\ phase' = "live"
                /\ variant' = "ER"
                /\ N' = n /\ B' = b /\ D' = 0
                /\ self_p' = p
                /\ adjacency' = BernoulliEdges(p)
                /\ weight' = GaussianWeights(w[1], w[2], w[3], b)
           ELSE /\ phase' = "failed"
                /\ UNCHANGED <<variant, N, B, D, self_p, adjacency, weight>>

\* GaussianWeightedEigenmodel(n, b, d): the features, effects and bias the
\* caller does not supply are drawn from their priors.
ConstructEigen ==
    \E n \in NInputs, b \in BInputs, d \in DInputs, w \in WeightParams,
       fs \in FSeeds, ls \in LmbdaSeeds, m \in BiasVals :
        /\ phase = "new"
        /\ args' = [cls |-> "Eigen", N |-> n, B |-> b, D |-> d]
        /\ err' = Eigen_init_error(n, b, d)
        /\ op' = "ctor"
        /\ UNCHANGED <<acc, ret, self_p, written>>
        /\ IF Eigen_init_error(n, b, d) = "none"
           THEN /\ phase' = "live"
                /\ variant' = "Eigen"
                /\ N' = n /\ B' = b /\ D' = d
                /\ adjacency' = LogisticEigenmodel(fs, ls, m, n, d)
                /\ weight' = GaussianWeights(w[1], w[2], w[3], b)
           ELSE /\ phase' = "failed"
                /\ UNCHANGED <<variant, N, B, D, adjacency, weight>>

\* A read of one accessor of the fixed-sparsity distribution.
ReadER ==
    \E a \in ER_Accessors :
        /\ phase = "live" /\ variant = "ER"
        /\ op' = "read" /\ acc' = a
        /\ ret' = ER_call(a)
        /\ AccessorFrame
        /\ UNCHANGED <<phase, err, args, variant, written>>

\* A read of one accessor of the eigenmodel distribution.
ReadEigen ==
    \E a \in Eigen_Accessors :
        /\ phase = "live" /\ variant = "Eigen"
        /\ op' = "read" /\ acc' = a
        /\ ret' = Eigen_call(a)
        /\ AccessorFrame
        /\ UNCHANGED <<phase, err, args, variant, written>>

\* The caller overwrites every entry of the array the last read returned.
\* Memory the array shares with a sub-process is overwritten with it.
Overwrite ==
    \E v \in OverwriteVals :
        /\ phase = "live" /\ op = "read" /\ ret.rank > 0
        /\ op' = "overwrite"
        /\ ret' = [ret EXCEPT !.val = Fill(ret.val, ret.rank, v)]
        /\ weight' = IF ret.alias = "weight.mu"
                     THEN [weight EXCEPT !.mu = Fill(weight.mu, 1, v)]
                     ELSE weight
        /\ UNCHANGED <<phase, err, args, variant, N, B, D, self_p, adjacency, acc, written>>

\* The inference driver replaces the weight process's parameters.
WeightUpdate ==
    \E w \in WeightParams :
        /\ phase = "live"
        /\ weight' = GaussianWeights(w[1], w[2], w[3], B)
        /\ weight' # weight
        /\ op' = "write" /\ acc' = "none" /\ ret' = NoValue /\ written' = TRUE
        /\ UNCHANGED <<phase, err, args, variant, N, B, D, self_p, adjacency>>

\* The inference driver pushes new embeddings, bias or effects into the eigenmodel.
SetEmbeddings ==
    \E fs \in FSeeds :
        /\ phase = "live" /\ variant = "Eigen"
        /\ adjacency' = [adjacency EXCEPT !.F = Features(fs, N, D)]
        /\ adjacency' # adjacency
        /\ op' = "write" /\ acc' = "none" /\ ret' = NoValue /\ written' = TRUE
        /\ UNCHANGED <<phase, err, args, variant, N, B, D, self_p, weight>>

SetBias ==
    \E m \in BiasVals :
        /\ phase = "live" /\ variant = "Eigen"
        /\ adjacency' = [adjacency EXCEPT !.mu_0 = m]
        /\ adjacency' # adjacency
        /\ op' = "write" /\ acc' = "none" /\ ret' = NoValue /\ written' = TRUE
        /\ UNCHANGED <<phase, err, args, variant, N, B, D, self_p, weight>>

SetEffects ==
    \E ls \in LmbdaSeeds :
        /\ phase = "live" /\ variant = "Eigen"
        /\ adjacency' = [adjacency EXCEPT !.lmbda = Vec(ls, N)]
        /\ adjacency' # adjacency
        /\ op' = "write" /\ acc' = "none" /\ ret' = NoValue /\ written' = TRUE
        /\ UNCHANGED <<phase, err, args, variant, N, B, D, self_p, weight>>

\* The caller assigns the p attribute of the object the adjacency_dist
\* property hands out: dist.adjacency_dist.p = q, q a probability.
SetAdjacencyP ==
    \E q \in {x \in PInputs : BernoulliEdgesValid(x)} :
        /\ phase = "live" /\ variant = "ER"
        /\ adjacency' = [adjacency EXCEPT !.p = q]
        /\ adjacency' # adjacency
        /\ op' = "write" /\ acc' = "none" /\ ret' = NoValue /\ written' = TRUE
        /\ UNCHANGED <<phase, err, args, variant, N, B, D, self_p, weight>>

Next ==
    \/ ConstructER
    \/ ConstructEigen
    \/ ReadER
    \/ ReadEigen
    \/ Overwrite
    \/ WeightUpdate
    \/ SetEmbeddings
    \/ SetBias
    \/ SetEffects

Spec == Init /\ [][Next]_vars

NextAttr == Next \/ SetAdjacencyP

SpecAttr == Init /\ [][NextAttr]_vars

\* =========================================================== claims
\* The accessor a of the live object, by its class.
Call(a) == IF variant = "ER" THEN ER_call(a) ELSE Eigen_call(a)

Accessors == IF variant = "ER" THEN ER_Accessors ELSE Eigen_Accessors

Live == phase = "live"

\* t is an array of exactly the shape dims
RECURSIVE IsShape(_, _)
IsShape(t, dims) ==
    IF dims = <<>> THEN TRUE
    ELSE /\ DOMAIN t = 1 .. Head(dims)
         /\ \A i \in DOMAIN t : IsShape(t[i], Tail(dims))

\* C1: in both variants and after any updates of the weight process, every
\* slice Mu[i,j,:] is the weight process's current mu and every slice
\* mf_expected_mu()[i,j,:] is the weight process's current mf_expected_mu(),
\* for all i, j in [0, N); the same holds of the array a read returned.
C1_Tiling ==
    Live =>
        /\ DOMAIN Call("Mu").val = 1 .. N
        /\ DOMAIN Call("mf_expected_mu").val = 1 .. N
        /\ \A i \in 1 .. N :
              /\ DOMAIN Call("Mu").val[i] = 1 .. N
              /\ DOMAIN Call("mf_expected_mu").val[i] = 1 .. N
              /\ \A j \in 1 .. N :
                    /\ Call("Mu").val[i][j] = weight.mu
                    /\ Call("mf_expected_mu").val[i][j] = W_mf_expected_mu
        /\ (op = "read" /\ acc = "Mu") =>
              \A i \in 1 .. N : \A j \in 1 .. N : ret.val[i][j] = weight.mu
        /\ (op = "read" /\ acc = "mf_expected_mu") =>
              \A i \in 1 .. N : \A j \in 1 .. N : ret.val[i][j] = W_mf_expected_mu

C1_Witness ==
    /\ Live /\ written /\ op = "read" /\ acc = "Mu" /\ variant = "Eigen"
    /\ N >= 2 /\ B >= 2
    /\ ret.val[1][2] = weight.mu /\ weight.mu # W_mf_expected_mu

\* C2: a distribution constructed with node count N and weight dimension B
\* has, in every state, Mu of shape NxNxB; Sigma, mf_expected_mumuT() and
\* mf_expected_Sigma_inv() of shape NxNxBxB; P, mf_expected_log_p() and
\* mf_expected_logdet_Sigma() of shape NxN, in both variants.
C2_Shapes ==
    Live =>
        /\ N = args.N /\ B = args.B
        /\ Call("Mu").rank = 3 /\ IsShape(Call("Mu").val, <<args.N, args.N, args.B>>)
        /\ Call("Sigma").rank = 4
        /\ IsShape(Call("Sigma").val, <<args.N, args.N, args.B, args.B>>)
        /\ Call("mf_expected_mumuT").rank = 4
        /\ IsShape(Call("mf_expected_mumuT").val, <<args.N, args.N, args.B, args.B>>)
        /\ Call("mf_expected_Sigma_inv").rank = 4
        /\ IsShape(Call("mf_expected_Sigma_inv").val, <<args.N, args.N, args.B, args.B>>)
        /\ Call("P").rank = 2 /\ IsShape(Call("P").val, <<args.N, args.N>>)
        /\ Call("mf_expected_log_p").rank = 2
        /\ IsShape(Call("mf_expected_log_p").val, <<args.N, args.N>>)
        /\ Call("mf_expected_logdet_Sigma").rank = 2
        /\ IsShape(Call("mf_expected_logdet_Sigma").val, <<args.N, args.N>>)

C2_Witness ==
    /\ Live /\ variant = "Eigen" /\ written /\ N = 2 /\ B = 1
    /\ op = "read" /\ acc = "mf_expected_logdet_Sigma"
    /\ IsShape(ret.val, <<2, 2>>)

\* C3: the fixed-sparsity distribution built with a valid p has P equal to p
\* at every entry, mf_expected_log_p() equal at every entry to the adjacency
\* process's scalar log(p), and mf_expected_log_notp() equal at every entry
\* to log(1 - p).
C3_FixedSparsity ==
    (Live /\ variant = "ER") =>
        /\ IsShape(ER_P.val, <<N, N>>)
        /\ IsShape(ER_mf_expected_log_p.val, <<N, N>>)
        /\ IsShape(ER_mf_expected_log_notp.val, <<N, N>>)
        /\ BE_mf_expected_log_p = LogTenths(args.p)
        /\ BE_mf_expected_log_notp = LogTenths(10 - args.p)
        /\ \A i \in 1 .. N : \A j \in 1 .. N :
              /\ ER_P.val[i][j] = args.p
              /\ ER_mf_expected_log_p.val[i][j] = BE_mf_expected_log_p
              /\ ER_mf_expected_log_notp.val[i][j] = BE_mf_expected_log_notp

C3_Witness ==
    /\ Live /\ variant = "ER" /\ N >= 2 /\ args.p = 2
    /\ op = "read" /\ acc = "mf_expected_log_notp"
    /\ ret.val[2][1] = -223

\* The arguments of the constructor call break a dimension rule.
BadDimensions ==
    \/ args.N <= 0
    \/ args.B <= 0
    \/ (args.cls = "Eigen" /\ args.D <= 0)

NoObject ==
    /\ variant = "none" /\ N = 0 /\ B = 0 /\ D = 0 /\ self_p = 0
    /\ adjacency = NoAdjacency /\ weight = NoWeights

\* C4: a construction with N <= 0 or B <= 0 (either variant) or D <= 0
\* (eigenmodel) fails with InvalidDimension and leaves no object; a
\* construction succeeds only with N > 0, B > 0 and (eigenmodel) D > 0.
C4_Dimensions ==
    (phase # "new") =>
        /\ BadDimensions => (phase = "failed" /\ err = "InvalidDimension" /\ NoObject)
        /\ (phase = "failed") => NoObject
        /\ Live => (~BadDimensions /\ N > 0 /\ B > 0 /\ (variant = "Eigen" => D > 0))

C4_Witness ==
    /\ phase = "failed" /\ err = "InvalidDimension"
    /\ args.cls = "Eigen" /\ args.N > 0 /\ args.B > 0 /\ args.D <= 0

C6_ReadsArePure ==
    [][/\ (op' = "read") => UNCHANGED <<N, B, D, adjacency, weight>>
       /\ (op = "read" /\ op' = "read" /\ acc' = acc) => ret' = ret]_vars

C6_Witness ==
    /\ Live /\ written /\ op = "read" /\ acc = "mf_expected_Sigma_inv"
    /\ variant = "Eigen" /\ N >= 2

\* C7: overwriting the entries of an array an accessor returned changes
\* neither the adjacency process nor the weight process, and the accessor
\* still returns what it returned before the overwrite.
C7_NoAliasing ==
    [][(op' = "overwrite") =>
          /\ UNCHANGED <<N, B, D, adjacency, weight>>
          /\ Call(acc)' = ret
          /\ ret' # ret]_vars

C7_Witness ==
    /\ Live /\ op = "overwrite" /\ acc = "Mu" /\ variant = "ER" /\ N = 1
    /\ ret.val[1][1][1] = 7 /\ weight.mu[1] # 7

\* What each readable value is when computed from N, B and the current state
\* of the two sub-processes.
View(a) ==
    CASE a = "p" -> adjacency.p
      [] a = "P" -> IF variant = "ER"
                    THEN [i \in 1 .. N |-> [j \in 1 .. N |-> adjacency.p]]
                    ELSE [i \in 1 .. N |-> [j \in 1 .. N |-> Sigmoid(Logit(i, j))]]
      [] a = "mf_expected_log_p" ->
            IF variant = "ER"
            THEN [i \in 1 .. N |-> [j \in 1 .. N |-> LogTenths(adjacency.p)]]
            ELSE [i \in 1 .. N |-> [j \in 1 .. N |-> LogSigmoid(Logit(i, j))]]
      [] a = "mf_expected_log_notp" ->
            IF variant = "ER"
            THEN [i \in 1 .. N |-> [j \in 1 .. N |-> LogTenths(10 - adjacency.p)]]
            ELSE [i \in 1 .. N |-> [j \in 1 .. N |-> LogSigmoid(-Logit(i, j))]]
      [] a = "Mu" -> [i \in 1 .. N |-> [j \in 1 .. N |-> weight.mu]]
      [] a = "Sigma" -> [i \in 1 .. N |-> [j \in 1 .. N |-> weight.sigma]]
      [] a = "mf_expected_mu" -> [i \in 1 .. N |-> [j \in 1 .. N |-> weight.E_mu]]
      [] a = "mf_expected_mumuT" -> [i \in 1 .. N |-> [j \in 1 .. N |-> weight.E_mumuT]]
      [] a = "mf_expected_Sigma_inv" ->
            [i \in 1 .. N |-> [j \in 1 .. N |-> weight.E_Sigma_inv]]
      [] a = "mf_expected_logdet_Sigma" ->
            [i \in 1 .. N |-> [j \in 1 .. N |-> weight.E_logdet_Sigma]]

\* C8: the distribution is a view: whatever was written to the adjacency
\* process and the weight process before, a read of P, of the fixed-sparsity
\* p, of Mu, of Sigma or of an mf_expected_* method returns the value computed
\* from N, B and the current state of the two sub-processes.
C8_View ==
    (Live /\ op = "read") => ret.val = View(acc)

\* C9: the eigenmodel's mf_expected_log_p(), mf_expected_log_notp() and P are
\* the adjacency process's own answers, entry [i,j] being log sigmoid(logit)
\* and log sigmoid(-logit) with nothing added; the fixed-sparsity variant
\* broadcasts the adjacency process's scalar to all NxN entries.
C9_Delegation ==
    /\ (Live /\ variant = "Eigen") =>
          /\ Eigen_P = LE_P
          /\ Eigen_mf_expected_log_p = LE_mf_expected_log_p
          /\ Eigen_mf_expected_log_notp = LE_mf_expected_log_notp
          /\ IsShape(Eigen_mf_expected_log_p.val, <<N, N>>)
          /\ IsShape(Eigen_mf_expected_log_notp.val, <<N, N>>)
          /\ \A i \in 1 .. N : \A j \in 1 .. N :
                /\ Eigen_mf_expected_log_p.val[i][j] = LogSigmoid(Logit(i, j))
                /\ Eigen_mf_expected_log_notp.val[i][j] = LogSigmoid(-Logit(i, j))
    /\ (Live /\ variant = "ER") =>
          /\ IsShape(ER_mf_expected_log_p.val, <<N, N>>)
          /\ IsShape(ER_mf_expected_log_notp.val, <<N, N>>)
          /\ \A i \in 1 .. N : \A j \in 1 .. N :
                /\ ER_mf_expected_log_p.val[i][j] = BE_mf_expected_log_p
                /\ ER_mf_expected_log_notp.val[i][j] = BE_mf_expected_log_notp

C9_Witness ==
    /\ Live /\ variant = "Eigen" /\ written /\ N >= 2
    /\ op = "read" /\ acc = "mf_expected_log_notp"
    /\ Logit(1, 2) # 0
    /\ ret.val[1][2] = LogSigmoid(-Logit(1, 2))
    /\ ret.val[1][2] # LogSigmoid(Logit(1, 2))

====
